---------------------------- MODULE Spec2Model ----------------------------
(***************************************************************************)
(* Model of the codewind performance container's load-run orchestrator     *)
(* (src/src/performance/server.js) and of the metrics endpoint prober and  *)
(* dashboard resolver (src/unnamed/part_000, metricsStatusChecker.js).     *)
(*                                                                         *)
(* Node.js runs every callback to completion, so each route handler and    *)
(* each child-process callback is one atomic action.  The child process    *)
(* is the environment; it follows the documented contract of              *)
(* child_process:                                                          *)
(*   - spawn returns a ChildProcess; when the program could not be started *)
(*     the child's 'error' callback runs on the next tick and no 'exit'    *)
(*     follows;                                                            *)
(*   - kill delivers the signal, does nothing to a child that has already  *)
(*     ended, or fails and emits 'error' synchronously while the child     *)
(*     keeps running ('exit' follows later);                               *)
(*   - 'exit' is delivered once for every child that was started.          *)
(* Under this contract no statement of the two routes throws, so their     *)
(* catch clauses (server.js:76-79, 98-101) never run.                      *)
(***************************************************************************)
EXTENDS Integers, Sequences, FiniteSets, TLC

VARIABLES
  loadProcess,  \* server.js:34  projectID -> child process (0: none)
  procs,        \* the ChildProcess objects created by spawn, in spawn order,
                \* each with the variables of its runLoad closure
  emitted,      \* the events the last step published with io.emit, in order
                \* (io.emit keeps nothing: no backlog, no replay)
  last,         \* what the last step ran: an HTTP request with its response,
                \* or a child-process callback with its arguments
  win,          \* per projectID, since its last terminal event: the start
                \* requests answered 202 and the calls of childProcess.spawn
  phase,        \* position of one getMetricsDashboardHostAndPath call
  call,         \* its arguments (projectID, projectLanguage)
  response,     \* the HTTP request that settled in the last step: its
                \* endpoint and its outcome
  isActive,     \* per endpoint whose probe has settled: how its
                \* isMetricsEndpoint call ended
  endpoints,    \* the map getActiveMetricsURLs returned
  dashboard,    \* what getMetricsDashboardHostAndPath returned
  args,         \* the arguments of one call of a helper function of
                \* metricsStatusChecker.js made on its own
  result        \* whether that call has returned, and its return value

orchVars == <<loadProcess, procs, emitted, last, win>>
probeVars ==
  <<phase, call, response, isActive, endpoints, dashboard, args, result>>
vars == <<loadProcess, procs, emitted, last, win,
          phase, call, response, isActive, endpoints, dashboard, args,
          result>>

---------------------------------------------------------------------------
(* Bounds *)

\* spawned child processes over a whole behaviour
MaxRuns == 2

\* lines of a response body handed to isPrometheusFormat on its own
MaxLines == 2

\* characters of a text made of every combination of a few characters
MaxChars == 4

Keys == {"A", "B"}

\* JavaScript values of the 'exit' callback; "null" is null, "0" the number 0
\* and "9" the number 9
Codes == {"null", "0", "1", "2"}
Signals == {"null", "SIGKILL", "SIGTERM", "SIGINT", "9"}
\* what Node passes for a worker that ended: a code and no signal, or the
\* name of a signal and no code
ExitStatuses ==
  {[code |-> "0", signal |-> "null"], [code |-> "1", signal |-> "null"],
   [code |-> "null", signal |-> "SIGTERM"],
   [code |-> "null", signal |-> "SIGKILL"]}

KilledStatusSIGTERM == [code |-> "null", signal |-> "SIGTERM"]

\* the status of a child ended by kill('SIGKILL') (server.js:91)
KilledStatus == [code |-> "null", signal |-> "SIGKILL"]

\* what the worker writes: its summary on stdout, its complaints on stderr,
\* each at most once
StdoutChunk == "summary"
StderrChunk == "failure"

SpawnOutcomes == {"ok", "error"}
KillResults == {"ok", "eperm"}

TerminalNames == {"completed", "loadrunError", "cancelled"}

---------------------------------------------------------------------------
(* io.emit: an event is its name, its payload (the fields it has and their *)
(* values) and two ghost fields: the run whose code published it and the   *)
(* value of loadProcess[projectID] at the moment of the emit.              *)

Event(name, fields, k, output, error, run, lp) ==
  [name |-> name, fields |-> fields, projectID |-> k,
   output |-> output, error |-> error, run |-> run, reg |-> lp[k]]

NoWin == [n202 |-> 0, spawned |-> 0]

\* what a handler leaves behind: the registry, the events it published, the
\* response counts and the number of terminal events it published for run p
Orch(lp, evs, w) == [lp |-> lp, evs |-> evs, w |-> w]

ClearEntryNever(lp, k) == lp

ClearEntryOfEveryKey(lp, k) == [j \in DOMAIN lp |-> 0]

\* server.js:118  (and 133)
ClearEntry(lp, k) == [lp EXCEPT ![k] = 0]

exitHandlerNumericSignalOnly(lp, w, p, code, signal) ==
  LET k == procs[p].key
      lp1 == ClearEntry(lp, k)
      ev == IF signal = "9"
              THEN Event("cancelled", {"projectID"}, k, "", "", p, lp1)
            ELSE IF code # "0"
              THEN Event("loadrunError", {"output", "error", "projectID"}, k,
                         procs[p].output, procs[p].errOutput, p, lp1)
            ELSE Event("completed", {"output", "projectID"}, k,
                       procs[p].output, "", p, lp1)
  IN Orch(lp1, <<ev>>, [w EXCEPT ![k] = NoWin])

\* server.js:117-131  the 'exit' handler of run p
exitHandler(lp, w, p, code, signal) ==
  LET k == procs[p].key
      lp1 == ClearEntry(lp, k)
      ev == IF signal = "9" \/ signal = "SIGKILL"
              THEN Event("cancelled", {"projectID"}, k, "", "", p, lp1)
            ELSE IF code # "0"
              THEN Event("loadrunError", {"output", "error", "projectID"}, k,
                         procs[p].output, procs[p].errOutput, p, lp1)
            ELSE Event("completed", {"output", "projectID"}, k,
                       procs[p].output, "", p, lp1)
  IN Orch(lp1, <<ev>>, [w EXCEPT ![k] = NoWin])

errorHandlerKeepsEntry(lp, w, p) ==
  LET k == procs[p].key
      ev == Event("loadrunError", {"output", "error", "projectID"}, k,
                  procs[p].output, procs[p].errOutput, p, lp)
  IN Orch(lp, <<ev>>, [w EXCEPT ![k] = NoWin])

\* server.js:132-136  the 'error' handler of run p
errorHandler(lp, w, p) ==
  LET k == procs[p].key
      lp1 == ClearEntry(lp, k)
      ev == Event("loadrunError", {"output", "error", "projectID"}, k,
                  procs[p].output, procs[p].errOutput, p, lp1)
  IN Orch(lp1, <<ev>>, [w EXCEPT ![k] = NoWin])

\* a spawn failure's 'error' callback is queued with process.nextTick: it
\* runs before any other request or callback
NoTick == \A p \in 1..Len(procs) : procs[p].st # "spawnfail"

Ran(op, k, hasUrl, status, p, code, signal) ==
  [op |-> op, projectID |-> k, url |-> hasUrl, status |-> status,
   run |-> p, code |-> code, signal |-> signal]

NoRequest == Ran("none", "", FALSE, 0, 0, "null", "null")

\* res.sendStatus / res.status(..).send of a route
Respond(op, k, hasUrl, status) ==
  last' = Ran(op, k, hasUrl, status, 0, "null", "null")

RunloadBranchNoCheck(lp, k, hasUrl) ==
  IF ~hasUrl /\ lp[k] = 0 THEN "nourl"
  ELSE IF hasUrl THEN "run" ELSE "conflict"

RunloadBranchUrlFirst(lp, k, hasUrl) ==
  IF ~hasUrl THEN "nourl"
  ELSE IF lp[k] # 0 THEN "conflict" ELSE "run"

\* server.js:63-64  which branch POST /api/v1/runload takes
RunloadBranch(lp, k, hasUrl) ==
  IF ~(lp[k] # 0)
    THEN IF ~hasUrl THEN "nourl" ELSE "run"
    ELSE "conflict"

\* server.js:66, 70, 73  the status each branch answers with
RunloadStatus(branch) ==
  IF branch = "nourl" THEN 500
  ELSE IF branch = "run" THEN 202
  ELSE 409

CancelLoadStatusAlways200(lp, k) == 200

\* server.js:90-97  the status POST /api/v1/cancelLoad answers with
CancelLoadStatus(lp, k) == IF lp[k] # 0 THEN 200 ELSE 409

\* the url of a request body that has one
Url == "http://app:3000/"

\* the body of a request for project k that carries a url
Options(k) == [projectID |-> k, url |-> Url]

\* JSON.stringify of such a body
JSONstringify(options) ==
  "{\"projectID\":\"" \o options.projectID \o "\",\"url\":\""
    \o options.url \o "\"}"

\* the ChildProcess spawn returns, with the arguments of its program and the
\* closure variables of runLoad (server.js:107-109); nterm counts the
\* terminal events its handlers published and cancelAccepted tells whether
\* a cancel request that found it registered was answered
NewProcess(k, outcome) ==
  [key |-> k, st |-> IF outcome = "ok" THEN "running" ELSE "spawnfail",
   argv |-> <<"runload.js", JSONstringify(Options(k))>>,
   output |-> "", errOutput |-> "", nterm |-> 0, cancelAccepted |-> FALSE]

\* after its last callback nothing refers to the closure any more
Closed(pr) ==
  [pr EXCEPT !.st = "closed", !.output = "", !.errOutput = "",
             !.nterm = @ + 1]

---------------------------------------------------------------------------
runLoadStartedBeforeSpawn(k, outcome) ==
  LET p == Len(procs) + 1
      starting == Event("starting", {"projectID"}, k, "", "", p,
                        loadProcess)
      started == Event("started", {"projectID"}, k, "", "", p, loadProcess)
      lp1 == [loadProcess EXCEPT ![k] = p]
  IN /\ emitted' = <<starting, started>>
     /\ loadProcess' = lp1
     /\ procs' = Append(procs, NewProcess(k, outcome))

(* server.js:104-138  runLoad(options), called with options.projectID = k  *)
(* and the outcome of childProcess.spawn                                   *)
runLoad(k, outcome) ==
  LET p == Len(procs) + 1
      starting == Event("starting", {"projectID"}, k, "", "", p,
                        loadProcess)
      lp1 == [loadProcess EXCEPT ![k] = p]
      started == Event("started", {"projectID"}, k, "", "", p, lp1)
  IN /\ emitted' = <<starting, started>>
     /\ loadProcess' = lp1
     /\ procs' = Append(procs, NewProcess(k, outcome))

(* server.js:61-80  POST /api/v1/runload                                   *)
RunloadRoute(k, hasUrl, outcome) ==
  /\ NoTick
  /\ LET branch == RunloadBranch(loadProcess, k, hasUrl)
     IN /\ IF branch = "run"
             THEN /\ Len(procs) < MaxRuns
                  /\ runLoad(k, outcome)
                  /\ win' = [win EXCEPT ![k].n202 = @ + 1,
                                        ![k].spawned = @ + 1]
             ELSE /\ outcome = "ok"
                  /\ emitted' = <<>>
                  /\ UNCHANGED <<loadProcess, procs, win>>
        /\ Respond("runload", k, hasUrl, RunloadStatus(branch))
  /\ UNCHANGED probeVars

(* server.js:88-102  POST /api/v1/cancelLoad; kill('SIGKILL') ends a        *)
(* running child, does nothing to one that has already exited, and on any  *)
(* other failure emits 'error', whose handler runs inside the call         *)
CancelLoadRoute(k, killResult) ==
  /\ NoTick
  /\ IF loadProcess[k] # 0
       THEN LET p == loadProcess[k]
            IN /\ IF procs[p].st = "running"
                    THEN IF killResult = "ok"
                           THEN /\ procs' = [procs EXCEPT
                                      ![p].st = "killed",
                                      ![p].cancelAccepted = TRUE]
                                /\ emitted' = <<>>
                                /\ UNCHANGED <<loadProcess, win>>
                           ELSE LET S == errorHandler(loadProcess, win, p)
                                IN /\ loadProcess' = S.lp
                                   /\ emitted' = S.evs
                                   /\ win' = S.w
                                   /\ procs' = [procs EXCEPT
                                                  ![p].nterm = @ + 1,
                                                  ![p].cancelAccepted = TRUE]
                    ELSE /\ killResult = "ok"
                         /\ emitted' = <<>>
                         /\ procs' = [procs EXCEPT
                                        ![p].cancelAccepted = TRUE]
                         /\ UNCHANGED <<loadProcess, win>>
       ELSE /\ killResult = "ok"
            /\ emitted' = <<>>
            /\ UNCHANGED <<loadProcess, procs, win>>
  /\ Respond("cancelLoad", k, FALSE, CancelLoadStatus(loadProcess, k))
  /\ UNCHANGED probeVars

(* server.js:111-113  stdout 'data'                                        *)
StdoutData(p) ==
  /\ NoTick
  /\ procs[p].st = "running"
  /\ procs[p].output = ""
  /\ procs' = [procs EXCEPT ![p].output = @ \o StdoutChunk]
  /\ emitted' = <<>>
  /\ last' = NoRequest
  /\ UNCHANGED <<loadProcess, win>>
  /\ UNCHANGED probeVars

(* server.js:114-116  stderr 'data'                                        *)
StderrData(p) ==
  /\ NoTick
  /\ procs[p].st = "running"
  /\ procs[p].errOutput = ""
  /\ procs' = [procs EXCEPT ![p].errOutput = @ \o StderrChunk]
  /\ emitted' = <<>>
  /\ last' = NoRequest
  /\ UNCHANGED <<loadProcess, win>>
  /\ UNCHANGED probeVars

(* the worker ends by itself or is ended by somebody else's signal; Node    *)
(* has not run the 'exit' callback yet                                     *)
WorkerEnds(p) ==
  /\ NoTick
  /\ procs[p].st = "running"
  /\ procs' = [procs EXCEPT ![p].st = "exited"]
  /\ emitted' = <<>>
  /\ last' = NoRequest
  /\ UNCHANGED <<loadProcess, win>>
  /\ UNCHANGED probeVars

(* server.js:117-131  the 'exit' callback runs                             *)
OnExit(p, status) ==
  /\ NoTick
  /\ \/ procs[p].st = "exited"
     \/ procs[p].st = "killed" /\ status = KilledStatus
  /\ LET S == exitHandler(loadProcess, win, p, status.code, status.signal)
     IN /\ loadProcess' = S.lp
        /\ emitted' = S.evs
        /\ win' = S.w
  /\ procs' = [procs EXCEPT ![p] = Closed(@)]
  /\ last' = Ran("exit", procs[p].key, FALSE, 0, p, status.code,
                 status.signal)
  /\ UNCHANGED probeVars

(* server.js:132-136  the 'error' callback of a failed spawn runs          *)
OnError(p) ==
  /\ procs[p].st = "spawnfail"
  /\ LET S == errorHandler(loadProcess, win, p)
     IN /\ loadProcess' = S.lp
        /\ emitted' = S.evs
        /\ win' = S.w
  /\ procs' = [procs EXCEPT ![p] = Closed(@)]
  /\ last' = Ran("error", procs[p].key, FALSE, 0, p, "null", "null")
  /\ UNCHANGED probeVars

---------------------------------------------------------------------------
(* metricsStatusChecker.js (src/unnamed/part_000).  A response body is a   *)
(* sequence of characters.                                                 *)

\* part_000:224  the marker isAppmetricsFormat looks for: src="graphmetrics/js
Marker ==
  <<"s", "r", "c", "=", "\"", "g", "r", "a", "p", "h", "m", "e", "t", "r",
    "i", "c", "s", "/", "j", "s">>

\* String.prototype.includes
includes(string, search) ==
  \E i \in 1..(Len(string) - Len(search) + 1) :
    SubSeq(string, i, i + Len(search) - 1) = search

\* String.prototype.split with a one-character separator
RECURSIVE split(_, _)
split(string, sep) ==
  LET at == {i \in 1..Len(string) : string[i] = sep}
  IN IF at = {} THEN <<string>>
     ELSE LET i == CHOOSE x \in at : \A y \in at : x <= y
          IN <<SubSeq(string, 1, i - 1)>>
               \o split(SubSeq(string, i + 1, Len(string)), sep)

replaceBracesLazy(line) ==
  LET opens == {i \in 1..Len(line) : line[i] = "{"}
  IN IF opens = {} THEN line
     ELSE LET i == CHOOSE x \in opens : \A y \in opens : x <= y
              closes == {j \in (i + 1)..Len(line) : line[j] = "}"}
          IN IF closes = {} THEN line
             ELSE LET j == CHOOSE x \in closes : \A y \in closes : x <= y
                  IN SubSeq(line, 1, i - 1) \o SubSeq(line, j + 1, Len(line))

\* part_000:239  line.replace(/{.*}/, ''): the leftmost "{" that has a "}"
\* after it, up to the last "}" of the line, is removed
replaceBraces(line) ==
  LET opens == {i \in 1..Len(line) : line[i] = "{"}
  IN IF opens = {} THEN line
     ELSE LET i == CHOOSE x \in opens : \A y \in opens : x <= y
              closes == {j \in (i + 1)..Len(line) : line[j] = "}"}
          IN IF closes = {} THEN line
             ELSE LET j == CHOOSE x \in closes : \A y \in closes : y <= x
                  IN SubSeq(line, 1, i - 1) \o SubSeq(line, j + 1, Len(line))

\* part_000:223-225
isAppmetricsFormat(html) == includes(html, Marker)

\* part_000:233-243  the filter's predicate
validPrometheusLine(line) ==
  LET lineIsComment == Len(line) >= 1 /\ line[1] = "#"
      validatedLine == replaceBraces(line)
      validMetric == (Len(split(validatedLine, " ")) - 1) = 1
  IN lineIsComment \/ validMetric

isPrometheusFormatKeepsLastLine(string) ==
  LET lines == split(string, "\n")
      numberOfValidPrometheusLines ==
        Cardinality({i \in 1..Len(lines) : validPrometheusLine(lines[i])})
  IN Len(lines) = numberOfValidPrometheusLines

\* part_000:227-245
isPrometheusFormat(string) ==
  LET all == split(string, "\n")
      lines == IF all[Len(all)] = <<>> THEN SubSeq(all, 1, Len(all) - 1)
               ELSE all
      numberOfValidPrometheusLines ==
        Cardinality({i \in 1..Len(lines) : validPrometheusLine(lines[i])})
  IN Len(lines) = numberOfValidPrometheusLines

\* part_000:27-30
METRICS_DASH_HOST ==
  [project |-> "project", performanceContainer |-> "performanceContainer"]

\* part_000:32-53, in the order of Object.keys
VALID_METRIC_ENDPOINT ==
  <<[name |-> "metrics", endpoint |-> "/metrics",
     hosting |-> METRICS_DASH_HOST.performanceContainer],
    [name |-> "appmetricsDash", endpoint |-> "/appmetrics-dash",
     hosting |-> METRICS_DASH_HOST.project],
    [name |-> "javametricsDash", endpoint |-> "/javametrics-dash",
     hosting |-> METRICS_DASH_HOST.project],
    [name |-> "swiftmetricsDash", endpoint |-> "/swiftmetrics-dash",
     hosting |-> METRICS_DASH_HOST.project],
    [name |-> "actuatorPrometheus", endpoint |-> "/actuator/prometheus",
     hosting |-> METRICS_DASH_HOST.performanceContainer]>>

\* part_000:172
endpointsToCheck ==
  [i \in 1..Len(VALID_METRIC_ENDPOINT) |-> VALID_METRIC_ENDPOINT[i].endpoint]

EndpointSet == {endpointsToCheck[i] : i \in 1..Len(endpointsToCheck)}

\* the bodies a probed server answers with
DashHtml ==
  <<"<", "s", "c", "r", "i", "p", "t", " ", "a", "s", "y", "n", "c", " ",
    "s", "r", "c", "=", "\"", "g", "r", "a", "p", "h", "m", "e", "t", "r",
    "i", "c", "s", "/", "j", "s", "/", "a", ".", "j", "s", "\"", ">">>
PromText ==
  <<"#", " ", "u", "p", "\n", "u", "p", " ", "1", "\n", "r", "e", "q", "{",
    "m", "=", "\"", "G", "E", "T", " ", "/", "\"", "}", " ", "2", "\n">>
PlainText == <<"n", "o", " ", "s", "u", "c", "h", " ", "p", "a", "g", "e">>

\* how one HTTP request can end
Outcome(kind, statusCode, body) ==
  [kind |-> kind, statusCode |-> statusCode, body |-> body]
Outcomes ==
  {Outcome("error", 0, <<>>), Outcome("timeout", 0, <<>>),
   Outcome("end", 404, DashHtml), Outcome("end", 200, <<>>),
   Outcome("end", 200, DashHtml), Outcome("end", 200, PromText),
   Outcome("end", 200, PlainText)}

Languages == {"java", "nodejs", "swift"}
ProjectIDs == {"p1", "p2"}

\* sharedFunctions.js:51-84  the promise rejects on a request or response
\* 'error' (a timeout aborts the request, which emits 'error') and resolves
\* with the response on 'end'
asyncHttpRequest(outcome) ==
  IF outcome.kind \in {"error", "timeout"}
    THEN [rejected |-> TRUE, statusCode |-> 0, body |-> <<>>]
    ELSE [rejected |-> FALSE, statusCode |-> outcome.statusCode,
          body |-> outcome.body]

\* how a call of an async function ends
Returned(value) == [threw |-> FALSE, value |-> value]
Thrown == [threw |-> TRUE, value |-> FALSE]

isMetricsEndpointUncaught(outcome) ==
  LET res == asyncHttpRequest(outcome)
  IN IF res.rejected THEN Thrown
     ELSE IF ~(res.statusCode = 200) \/ res.body = <<>> THEN Returned(FALSE)
     ELSE Returned(isAppmetricsFormat(res.body)
                     \/ isPrometheusFormat(res.body))

\* part_000:197-221
isMetricsEndpoint(outcome) ==
  LET res == asyncHttpRequest(outcome)
  IN IF res.rejected THEN Returned(FALSE)
     ELSE LET validRes == (res.statusCode = 200)
          IN IF ~validRes \/ res.body = <<>> THEN Returned(FALSE)
             ELSE LET isAppmetrics == isAppmetricsFormat(res.body)
                      isPrometheus == isPrometheusFormat(res.body)
                  IN Returned(isAppmetrics \/ isPrometheus)

prioritisedReturnOrderWholeCatalog == VALID_METRIC_ENDPOINT

\* part_000:137-143
prioritisedReturnOrder ==
  <<VALID_METRIC_ENDPOINT[1], VALID_METRIC_ENDPOINT[2],
    VALID_METRIC_ENDPOINT[3], VALID_METRIC_ENDPOINT[4]>>

NoObject == [name |-> "undefined", endpoint |-> "undefined",
             hosting |-> "undefined"]

findLast(hits) ==
  IF hits = {} THEN NoObject
  ELSE prioritisedReturnOrder[CHOOSE i \in hits : \A j \in hits : i >= j]

\* Array.prototype.find over prioritisedReturnOrder: the first element among
\* those (given by their indices) for which the callback returns true
find(hits) ==
  IF hits = {} THEN NoObject
  ELSE prioritisedReturnOrder[CHOOSE i \in hits : \A j \in hits : i <= j]

dashboardObjectAnyLanguage(eps, projectLanguage) ==
  LET matches(o) == eps[o.endpoint] = TRUE
  IN find({i \in 1..Len(prioritisedReturnOrder) :
             matches(prioritisedReturnOrder[i])})

\* part_000:145-153
dashboardObject(eps, projectLanguage) ==
  LET matches(o) ==
        IF o.endpoint = VALID_METRIC_ENDPOINT[1].endpoint
             /\ projectLanguage # "java"
          THEN FALSE
          ELSE eps[o.endpoint] = TRUE
  IN find({i \in 1..Len(prioritisedReturnOrder) :
             matches(prioritisedReturnOrder[i])})

getDashboardPathNodejsOnly(metricsDashHost, projectMetricEndpoint, projectID, language) ==
  IF metricsDashHost = METRICS_DASH_HOST.project
    THEN projectMetricEndpoint \o "/?theme=dark"
  ELSE IF language \in {"nodejs"}
            /\ metricsDashHost = METRICS_DASH_HOST.performanceContainer
    THEN "/performance/monitor/dashboard/" \o language
           \o "?theme=dark&projectID=" \o projectID
  ELSE "null"

getDashboardPathAnyLanguage(metricsDashHost, projectMetricEndpoint, projectID, language) ==
  IF metricsDashHost = METRICS_DASH_HOST.project
    THEN projectMetricEndpoint \o "/?theme=dark"
  ELSE IF metricsDashHost = METRICS_DASH_HOST.performanceContainer
    THEN "/performance/monitor/dashboard/" \o language
           \o "?theme=dark&projectID=" \o projectID
  ELSE "null"

\* part_000:184-195
getDashboardPath(metricsDashHost, projectMetricEndpoint, projectID, language) ==
  IF metricsDashHost = METRICS_DASH_HOST.project
    THEN projectMetricEndpoint \o "/?theme=dark"
  ELSE IF language \in {"java", "nodejs"}
            /\ metricsDashHost = METRICS_DASH_HOST.performanceContainer
    THEN "/performance/monitor/dashboard/" \o language
           \o "?theme=dark&projectID=" \o projectID
  ELSE "null"

\* part_000:155-168
hostAndPath(eps, projectID, projectLanguage) ==
  LET obj == dashboardObject(eps, projectLanguage)
  IN IF obj = NoObject
       THEN [hosting |-> "null", path |-> "null"]
       ELSE [hosting |-> obj.hosting,
             path |-> getDashboardPath(obj.hosting, obj.endpoint, projectID,
                                       projectLanguage)]

NoResponse == [endpoint |-> "", outcome |-> Outcome("none", 0, <<>>)]

(* part_000:135-136 and 171-176  getMetricsDashboardHostAndPath is called   *)
(* and getActiveMetricsURLs sends the five requests                        *)
Call(projectID, projectLanguage) ==
  /\ phase = "idle"
  /\ phase' = "probing"
  /\ call' = [projectID |-> projectID, language |-> projectLanguage]
  /\ UNCHANGED <<response, isActive, endpoints, dashboard, args, result>>
  /\ UNCHANGED orchVars

(* part_000:173-176  one request settles and its isMetricsEndpoint call    *)
(* ends                                                                    *)
Settle(endpoint, outcome) ==
  /\ phase = "probing"
  /\ endpoint \notin DOMAIN isActive
  /\ response' = [endpoint |-> endpoint, outcome |-> outcome]
  /\ isActive' = (endpoint :> isMetricsEndpoint(outcome)) @@ isActive
  /\ UNCHANGED <<phase, call, endpoints, dashboard, args, result>>
  /\ UNCHANGED orchVars

\* part_000:173-176  what Promise.all resolves with: the value of every
\* promise, in the order of endpointsToCheck
PromiseAll(settled) ==
  [i \in 1..Len(endpointsToCheck) |->
     [endpoint |-> endpointsToCheck[i],
      isActive |-> settled[endpointsToCheck[i]].value]]

\* part_000:178-181  endpoints.reduce(.., {}) from element i on
RECURSIVE reduce(_, _, _)
reduce(array, i, acc) ==
  IF i > Len(array) THEN acc
  ELSE reduce(array, i + 1,
              (array[i].endpoint :> array[i].isActive) @@ acc)

JoinWithoutWaiting ==
  /\ phase = "probing"
  /\ isActive # <<>>
  /\ phase' = "joined"
  /\ endpoints' = [e \in DOMAIN isActive |-> isActive[e].value]
  /\ response' = NoResponse
  /\ UNCHANGED <<call, isActive, dashboard, args, result>>
  /\ UNCHANGED orchVars

(* part_000:173-181  Promise.all resolves once every probe has returned,   *)
(* or rejects as soon as one has thrown; the values are reduced to a map   *)
Join ==
  /\ phase = "probing"
  /\ \/ DOMAIN isActive = EndpointSet
     \/ \E e \in DOMAIN isActive : isActive[e].threw
  /\ IF \E e \in DOMAIN isActive : isActive[e].threw
       THEN /\ phase' = "rejected"
            /\ UNCHANGED endpoints
       ELSE /\ phase' = "joined"
            /\ endpoints' = reduce(PromiseAll(isActive), 1, <<>>)
  /\ response' = NoResponse
  /\ UNCHANGED <<call, isActive, dashboard, args, result>>
  /\ UNCHANGED orchVars

(* part_000:137-168                                                        *)
Resolve ==
  /\ phase = "joined"
  /\ phase' = "done"
  /\ dashboard' = hostAndPath(endpoints, call.projectID, call.language)
  /\ UNCHANGED <<call, response, isActive, endpoints, args, result>>
  /\ UNCHANGED orchVars

ProbeIdle ==
  /\ phase = "idle"
  /\ call = [projectID |-> "", language |-> ""]
  /\ response = NoResponse
  /\ isActive = <<>>
  /\ endpoints = <<>>
  /\ dashboard = [hosting |-> "null", path |-> "null"]

\* a helper call that has not returned, and one that returned value
Pending == [done |-> FALSE, value |-> "undefined"]
Done(value) == [done |-> TRUE, value |-> value]

NoHelperCall ==
  /\ args = [fn |-> "none"]
  /\ result = Pending

OrchInit ==
  /\ loadProcess = [k \in Keys |-> 0]
  /\ procs = <<>>
  /\ emitted = <<>>
  /\ last = NoRequest
  /\ win = [k \in Keys |-> NoWin]

Init == OrchInit /\ ProbeIdle /\ NoHelperCall

Next ==
  \/ \E k \in Keys, hasUrl \in BOOLEAN, o \in SpawnOutcomes :
        RunloadRoute(k, hasUrl, o)
  \/ \E k \in Keys, r \in KillResults : CancelLoadRoute(k, r)
  \/ \E p \in 1..Len(procs) : StdoutData(p)
  \/ \E p \in 1..Len(procs) : StderrData(p)
  \/ \E p \in 1..Len(procs) : WorkerEnds(p)
  \/ \E p \in 1..Len(procs), s \in ExitStatuses : OnExit(p, s)
  \/ \E p \in 1..Len(procs) : OnError(p)

Spec == Init /\ [][Next]_vars

\* a worker that was started ends at some time, and the event loop runs the
\* callbacks that are due
Fairness ==
  \A p \in 1..MaxRuns :
    /\ WF_vars(p \in 1..Len(procs) /\ WorkerEnds(p))
    /\ WF_vars(p \in 1..Len(procs) /\ \E s \in ExitStatuses : OnExit(p, s))
    /\ WF_vars(p \in 1..Len(procs) /\ OnError(p))

SpecFair == Spec /\ Fairness

---------------------------------------------------------------------------
(* The 'exit' handler as a function of its arguments: one worker that has  *)
(* ended, with any accumulated output, and any (code, signal) pair.        *)

InitExit ==
  /\ \E k \in Keys, out \in {"", StdoutChunk}, err \in {"", StderrChunk} :
        /\ loadProcess = [j \in Keys |-> IF j = k THEN 1 ELSE 0]
        /\ procs = <<[NewProcess(k, "ok") EXCEPT
                        !.st = "exited", !.output = out, !.errOutput = err]>>
        /\ win = [j \in Keys |-> IF j = k THEN [n202 |-> 1, spawned |-> 1]
                                 ELSE NoWin]
  /\ emitted = <<>>
  /\ last = NoRequest
  /\ ProbeIdle
  /\ NoHelperCall

NextExit == \E st \in [code : Codes, signal : Signals] : OnExit(1, st)

SpecExit == InitExit /\ [][NextExit]_vars

---------------------------------------------------------------------------
(* One call of getMetricsDashboardHostAndPath.                             *)

NextProbe ==
  \/ \E id \in ProjectIDs, lang \in Languages : Call(id, lang)
  \/ \E e \in EndpointSet, o \in Outcomes : Settle(e, o)
  \/ Join
  \/ Resolve

SpecProbe == Init /\ [][NextProbe]_vars

---------------------------------------------------------------------------
(* One call of getDashboardPath with any hosting kind, endpoint, project   *)
(* and language.                                                           *)

HostingKinds ==
  {METRICS_DASH_HOST.project, METRICS_DASH_HOST.performanceContainer}

InitPath ==
  /\ OrchInit
  /\ ProbeIdle
  /\ args \in [fn : {"getDashboardPath"}, metricsDashHost : HostingKinds,
               projectMetricEndpoint : EndpointSet, projectID : ProjectIDs,
               language : Languages]
  /\ result = Pending

(* part_000:184-195  the call returns                                      *)
GetDashboardPathReturns ==
  /\ args.fn = "getDashboardPath"
  /\ ~result.done
  /\ result' = Done(getDashboardPath(args.metricsDashHost,
                                     args.projectMetricEndpoint,
                                     args.projectID, args.language))
  /\ UNCHANGED <<phase, call, response, isActive, endpoints, dashboard, args>>
  /\ UNCHANGED orchVars

SpecPath == InitPath /\ [][GetDashboardPathReturns]_vars

---------------------------------------------------------------------------
(* One call of isPrometheusFormat with a body made of comment lines and    *)
(* metric lines, with or without a final newline, and with or without one  *)
(* more space put into one metric line outside its label block.            *)

\* a line is a comment, or a name, a label block (possibly none) and a value
CommentLine(text) == [comment |-> TRUE, name |-> text, labels |-> <<>>,
                      value |-> <<>>]
MetricLine(name, labels, value) ==
  [comment |-> FALSE, name |-> name, labels |-> labels, value |-> value]

BodyLines ==
  {CommentLine(<<"#">>),
   CommentLine(<<"#", " ", "T", "Y", "P", "E", " ", "u", "p", " ", "g">>),
   MetricLine(<<"u", "p">>, <<>>, <<"1">>),
   MetricLine(<<"r", "q">>, <<"{", "}">>, <<"0", ".", "5">>),
   MetricLine(<<"r", "q">>,
              <<"{", "m", "=", "\"", "G", " ", "/", "\"", ",", " ", "c", "=",
                "\"", "2", "\"", "}">>, <<"7">>)}

\* the characters of a line
Text(l) ==
  IF l.comment THEN l.name ELSE l.name \o l.labels \o <<" ">> \o l.value

\* where one more space can go in a metric line without entering its label
\* block: after q characters of the line
OutsidePositions(l) ==
  {q \in 0..Len(Text(l)) :
     q <= Len(l.name) \/ q >= Len(l.name) + Len(l.labels)}

InsertSpace(text, q) ==
  SubSeq(text, 1, q) \o <<" ">> \o SubSeq(text, q + 1, Len(text))

\* the lines joined by newlines, line at of them with a space more after q
\* characters (at = 0: none)
RECURSIVE Joined(_, _, _, _)
Joined(ls, i, at, q) ==
  IF i > Len(ls) THEN <<>>
  ELSE (IF i = at THEN InsertSpace(Text(ls[i]), q) ELSE Text(ls[i]))
         \o (IF i < Len(ls) THEN <<"\n">> ELSE <<>>)
         \o Joined(ls, i + 1, at, q)

BodyOf(ls, at, q, finalNewline) ==
  Joined(ls, 1, at, q)
    \o (IF finalNewline /\ Len(ls) > 0 THEN <<"\n">> ELSE <<>>)

LineSeqs == UNION {[1..n -> BodyLines] : n \in 0..MaxLines}

InitFormat ==
  /\ OrchInit
  /\ ProbeIdle
  /\ \E ls \in LineSeqs, finalNewline \in BOOLEAN :
        \/ /\ Len(ls) > 0 \/ ~finalNewline
           /\ args = [fn |-> "isPrometheusFormat",
                      string |-> BodyOf(ls, 0, 0, finalNewline),
                      spaceAdded |-> FALSE]
        \/ \E at \in 1..Len(ls) :
             /\ ~ls[at].comment
             /\ \E q \in OutsidePositions(ls[at]) :
                  args = [fn |-> "isPrometheusFormat",
                          string |-> BodyOf(ls, at, q, finalNewline),
                          spaceAdded |-> TRUE]
  /\ result = Pending

(* part_000:227-245  the call returns                                      *)
IsPrometheusFormatReturns ==
  /\ args.fn = "isPrometheusFormat"
  /\ ~result.done
  /\ result' = Done(isPrometheusFormat(args.string))
  /\ UNCHANGED <<phase, call, response, isActive, endpoints, dashboard, args>>
  /\ UNCHANGED orchVars

SpecFormat == InitFormat /\ [][IsPrometheusFormatReturns]_vars

---------------------------------------------------------------------------
(* One call of line.replace(/{.*}/, '') with any short line, or of         *)
(* isPrometheusFormat with any short body.                                 *)

LineChars == {"a", " ", "{", "}"}
BodyChars == LineChars \cup {"\n"}

\* the texts of at most MaxChars characters
Texts(chars) == UNION {[1..n -> chars] : n \in 0..MaxChars}

\* a line with two brace groups
TwoGroups == <<"a", "{", "x", "}", " ", "b", "{", "y", "}", " ", "1">>

InitText ==
  /\ OrchInit
  /\ ProbeIdle
  /\ \/ \E line \in Texts(LineChars) \cup {TwoGroups} :
          args = [fn |-> "replace", string |-> line]
     \/ \E body \in Texts(BodyChars) \cup {TwoGroups} :
          args = [fn |-> "isPrometheusFormat", string |-> body]
  /\ result = Pending

(* part_000:239  the call of replace returns                               *)
ReplaceReturns ==
  /\ args.fn = "replace"
  /\ ~result.done
  /\ result' = Done(replaceBraces(args.string))
  /\ UNCHANGED <<phase, call, response, isActive, endpoints, dashboard, args>>
  /\ UNCHANGED orchVars

NextText == ReplaceReturns \/ IsPrometheusFormatReturns

SpecText == InitText /\ [][NextText]_vars

---------------------------------------------------------------------------
(* Claims *)

Runs == 1..Len(procs)

\* the terminal events among those the last step published
TerminalEmitted ==
  {i \in 1..Len(emitted) : emitted[i].name \in TerminalNames}

\* C1: in every reachable state there is at most one live (spawned and not
\* yet exited) worker process per project key.
C1_AtMostOneLiveWorker ==
  \A k \in Keys :
    Cardinality({p \in Runs : procs[p].key = k /\ procs[p].st = "running"})
      <= 1

C3_OneTerminalPerRun ==
  /\ \A p \in Runs : procs[p].nterm <= 1
  /\ \A i \in 1..Len(emitted) :
       (emitted[i].name \in {"starting", "started"}
          /\ emitted[i].run \in Runs) => procs[emitted[i].run].nterm = 0

\* C4: the 'exit' callback publishes one event carrying the run's key:
\* cancelled when the signal is SIGKILL or 9, whatever the code; otherwise
\* loadrunError with the accumulated stdout and stderr when the code is not
\* zero (a null code included); otherwise completed with the accumulated
\* stdout.
C4_ExitClassification ==
  [][last'.op = "exit" =>
       LET p == last'.run
           e == emitted'[1]
       IN /\ Len(emitted') = 1
          /\ e.projectID = procs[p].key
          /\ "projectID" \in e.fields
          /\ IF last'.signal \in {"SIGKILL", "9"}
               THEN e.name = "cancelled"
             ELSE IF last'.code # "0"
               THEN /\ e.name = "loadrunError"
                    /\ {"output", "error"} \subseteq e.fields
                    /\ e.output = procs[p].output
                    /\ e.error = procs[p].errOutput
             ELSE /\ e.name = "completed"
                  /\ "output" \in e.fields
                  /\ e.output = procs[p].output]_vars

\* a worker ended by another signal, with output on both streams, was
\* reported as loadrunError
C4_Witness ==
  /\ last.op = "exit" /\ last.code = "null" /\ last.signal = "SIGTERM"
  /\ Len(emitted) = 1
  /\ emitted[1].name = "loadrunError"
  /\ emitted[1].output = StdoutChunk /\ emitted[1].error = StderrChunk

\* C5: when a terminal event for a key is published the registry holds no
\* entry for that key, and a start carrying a url handled next for that key
\* takes the accepting branch, not the already-running one.
C5_EntryClearedAtTerminalEvent ==
  \A i \in TerminalEmitted :
    /\ emitted[i].reg = 0
    /\ loadProcess[emitted[i].projectID] = 0
    /\ RunloadBranch(loadProcess, emitted[i].projectID, TRUE) = "run"

\* the last step published a terminal event, here cancelled
C5_Witness ==
  /\ TerminalEmitted # {}
  /\ \E i \in TerminalEmitted : emitted[i].name = "cancelled"

C7_NoUrlIsClientError ==
  [][\A k \in Keys :
       (last'.op = "runload" /\ last'.projectID = k /\ ~last'.url
          /\ loadProcess[k] = 0) =>
         /\ last'.status \in 400..499
         /\ emitted' = <<>>
         /\ UNCHANGED <<loadProcess, procs>>]_vars

LegacyEndpoints ==
  {VALID_METRIC_ENDPOINT[2].endpoint, VALID_METRIC_ENDPOINT[3].endpoint,
   VALID_METRIC_ENDPOINT[4].endpoint}

\* C9: the capability of one probe is true if and only if the request
\* completed without error, the status is 200, the body is not empty and one
\* of the two classifiers accepts the body; otherwise it is false; the probe
\* never raises an error.
C9_ProbeFailsClosed ==
  [][(response'.outcome.kind # "none"
        /\ response'.endpoint \notin DOMAIN isActive) =>
       LET o == response'.outcome
       IN isActive'[response'.endpoint] =
            Returned(/\ o.kind = "end"
                     /\ o.statusCode = 200
                     /\ o.body # <<>>
                     /\ \/ isAppmetricsFormat(o.body)
                        \/ isPrometheusFormat(o.body))]_vars

\* a request that timed out gave the capability false, and another that
\* answered 200 with a body only the second classifier accepts gave true
C9_Witness ==
  /\ response.outcome.kind = "timeout"
  /\ isActive[response.endpoint] = Returned(FALSE)
  /\ \E e \in DOMAIN isActive : isActive[e] = Returned(TRUE)

\* C10: when '/metrics' and a legacy dashboard endpoint are both capable,
\* language java selects '/metrics' (hosted by the performance container)
\* and every other language selects a legacy dashboard endpoint; '/metrics'
\* is never selected for a language other than java.
C10_ResolverPriority ==
  phase = "done" =>
    /\ (endpoints["/metrics"] /\ \E e \in LegacyEndpoints : endpoints[e]) =>
         IF call.language = "java"
           THEN /\ dashboard.hosting = "performanceContainer"
                /\ dashboardObject(endpoints, call.language).endpoint
                     = "/metrics"
           ELSE /\ dashboard.hosting = "project"
                /\ \E e \in LegacyEndpoints :
                      /\ endpoints[e]
                      /\ dashboard.path = e \o "/?theme=dark"
    /\ call.language # "java" =>
         /\ dashboard.hosting # "performanceContainer"
         /\ dashboardObject(endpoints, call.language).endpoint # "/metrics"

\* both are capable and the language is not java
C10_Witness ==
  /\ phase = "done"
  /\ call.language = "nodejs"
  /\ endpoints["/metrics"] /\ endpoints["/javametrics-dash"]
  /\ dashboard.hosting = "project"

\* no priority tier matches the map the probes returned
NoTierMatches ==
  /\ \A e \in LegacyEndpoints : ~endpoints[e]
  /\ ~(call.language = "java" /\ endpoints["/metrics"])

\* C11: the call raises no error, and it returns hosting null exactly when no
\* tier matches (no legacy dashboard endpoint is capable, and not both the
\* language is java and '/metrics' is capable); the path is then null too.
C11_NoneIffNoTierMatches ==
  /\ phase # "rejected"
  /\ phase = "done" =>
       /\ (dashboard.hosting = "null") <=> NoTierMatches
       /\ (dashboard = [hosting |-> "null", path |-> "null"])
            <=> NoTierMatches

\* '/metrics' and '/actuator/prometheus' are the capable endpoints of a
\* nodejs project and the call returned hosting null and path null
C11_Witness ==
  /\ phase = "done"
  /\ call.language = "nodejs"
  /\ endpoints["/metrics"] /\ endpoints["/actuator/prometheus"]
  /\ \A e \in LegacyEndpoints : ~endpoints[e]
  /\ dashboard = [hosting |-> "null", path |-> "null"]

\* C12 as stated: hosting by the project gives '<endpoint>/?theme=dark';
\* hosting by the performance container gives
\* '/monitor/dashboard/<language>?theme=dark&runID=<id>' for java and nodejs
\* and null for every other language.
C12_PathAsStated ==
  (args.fn = "getDashboardPath" /\ result.done) =>
    result.value =
      IF args.metricsDashHost = "project"
        THEN args.projectMetricEndpoint \o "/?theme=dark"
      ELSE IF args.language \in {"java", "nodejs"}
        THEN "/monitor/dashboard/" \o args.language \o "?theme=dark&runID="
               \o args.projectID
      ELSE "null"

\* C12: hosting by the project gives '<endpoint>/?theme=dark'; hosting by
\* the performance container gives
\* '/performance/monitor/dashboard/<language>?theme=dark&projectID=<id>' for
\* java and nodejs and null for every other language.
C12_PathConstruction ==
  (args.fn = "getDashboardPath" /\ result.done) =>
    /\ args.metricsDashHost = "project" =>
         result.value = args.projectMetricEndpoint \o "/?theme=dark"
    /\ (args.metricsDashHost = "performanceContainer"
          /\ args.language = "java") =>
         result.value = "/performance/monitor/dashboard/java?theme=dark"
                          \o "&projectID=" \o args.projectID
    /\ (args.metricsDashHost = "performanceContainer"
          /\ args.language = "nodejs") =>
         result.value = "/performance/monitor/dashboard/nodejs?theme=dark"
                          \o "&projectID=" \o args.projectID
    /\ (args.metricsDashHost = "performanceContainer"
          /\ args.language \notin {"java", "nodejs"}) =>
         result.value = "null"

\* the path of java project p1 hosted by the performance container
C12_Witness ==
  /\ args.fn = "getDashboardPath" /\ result.done
  /\ args.metricsDashHost = "performanceContainer"
  /\ args.language = "java" /\ args.projectID = "p1"
  /\ result.value
       = "/performance/monitor/dashboard/java?theme=dark&projectID=p1"

\* C13: a body whose lines are comment lines and lines of the shape
\* 'name value' or 'name{labels} value', with or without a final newline
\* (the empty body included), is classified true; the same body with one
\* more space outside the label block of one of its metric lines is
\* classified false.
C13_ExpositionClassifier ==
  (args.fn = "isPrometheusFormat" /\ result.done) =>
    result.value = ~args.spaceAdded

\* a body of two lines ending in a newline, one of them with spaces inside
\* its label block, was classified true
C13_Witness ==
  /\ args.fn = "isPrometheusFormat" /\ result.done
  /\ ~args.spaceAdded
  /\ includes(args.string, <<"G", " ", "/">>)
  /\ Len(split(args.string, "\n")) = 3
  /\ args.string[Len(args.string)] = "\n"
  /\ result.value = TRUE

\* C14 as stated: an accepted start registers the entry for the key, then
\* publishes starting, then spawns the worker with the serialized options,
\* then publishes started, then answers 202, without waiting for a terminal
\* event: the registry holds the entry when starting is published.
C14_EntryRegisteredBeforeStarting ==
  [][\A k \in Keys :
       (last'.op = "runload" /\ last'.projectID = k /\ last'.status = 202) =>
         /\ Len(emitted') = 2
         /\ emitted'[1].name = "starting" /\ emitted'[1].projectID = k
         /\ emitted'[1].reg # 0
         /\ emitted'[2].name = "started" /\ emitted'[2].projectID = k
         /\ emitted'[2].reg = Len(procs')
         /\ loadProcess'[k] = Len(procs')]_vars

\* C14: an accepted start publishes starting while the registry holds no
\* entry for the key, then spawns the worker with the serialized options and
\* registers it under the key, then publishes started, then answers 202,
\* without waiting for a terminal event.
C14_StartOrder ==
  [][\A k \in Keys :
       (last'.op = "runload" /\ last'.projectID = k /\ last'.status = 202) =>
         LET p == Len(procs')
         IN /\ Len(emitted') = 2
            /\ emitted'[1].name = "starting" /\ emitted'[1].projectID = k
            /\ emitted'[1].fields = {"projectID"}
            /\ emitted'[1].reg = 0
            /\ emitted'[2].name = "started" /\ emitted'[2].projectID = k
            /\ emitted'[2].fields = {"projectID"}
            /\ emitted'[2].reg = p
            /\ p = Len(procs) + 1
            /\ loadProcess'[k] = p
            /\ procs'[p].key = k
            /\ procs'[p].argv[2]
                 = "{\"projectID\":\"" \o k \o "\",\"url\":\"" \o Url \o "\"}"
            /\ procs'[p].st \in {"running", "spawnfail"}
            /\ procs'[p].nterm = 0]_vars

\* a start was answered 202 while its worker is running and nothing of the
\* run has terminated
C14_Witness ==
  /\ last.op = "runload" /\ last.status = 202
  /\ Len(emitted) = 2
  /\ emitted[1].name = "starting" /\ emitted[1].reg = 0
  /\ emitted[2].name = "started" /\ emitted[2].reg = loadProcess[last.projectID]
  /\ procs[loadProcess[last.projectID]].st = "running"

\* C15: a cancel for a key with a live registry entry is answered 200,
\* leaves the entry in place and publishes no event; a cancelled event is
\* published, and the entry of a cancelled run removed, only by the 'exit'
\* callback.  (A second cancel before that callback finds the entry in
\* place and is answered 200 as well.)
C15_CancelOnlySignals ==
  [][/\ \A k \in Keys :
          (last'.op = "cancelLoad" /\ last'.projectID = k
             /\ loadProcess[k] # 0) =>
            /\ last'.status = 200
            /\ emitted' = <<>>
            /\ loadProcess' = loadProcess
     /\ \A i \in 1..Len(emitted') :
          emitted'[i].name = "cancelled" => last'.op = "exit"]_vars

\* C16 as stated: once a cancel was answered 200 for a run that has not
\* terminated, the terminal event its 'exit' callback publishes is cancelled,
\* also when the worker had already ended by itself.
C16_AcceptedCancelEndsCancelled ==
  [][(last'.op = "exit" /\ procs[last'.run].cancelAccepted
        /\ procs[last'.run].nterm = 0) =>
       /\ Len(emitted') = 1
       /\ emitted'[1].name = "cancelled"]_vars

\* C16: once a cancel was answered 200 for a run whose worker was running
\* and received the signal, the 'exit' callback of that run publishes
\* cancelled; for a worker that had already ended by itself when the cancel
\* was handled it publishes what the worker's own exit status gives, which
\* can be completed or loadrunError.
C16_CancelOfRunningWorkerEndsCancelled ==
  [][last'.op = "exit" =>
       LET p == last'.run
           e == emitted'[1]
       IN /\ Len(emitted') = 1 /\ e.run = p
          /\ procs[p].st = "killed" =>
               (procs[p].cancelAccepted /\ e.name = "cancelled")
          /\ (procs[p].st = "exited" /\ procs[p].cancelAccepted) =>
               e.name = IF last'.signal = "SIGKILL" THEN "cancelled"
                        ELSE IF last'.code = "0" THEN "completed"
                        ELSE "loadrunError"]_vars

\* the 'exit' callback of a run for which a cancel was answered 200 has
\* published cancelled, the only terminal event of that run
C16_Witness ==
  /\ last.op = "exit" /\ last.signal = "SIGKILL"
  /\ procs[last.run].cancelAccepted /\ procs[last.run].nterm = 1
  /\ Len(emitted) = 1 /\ emitted[1].name = "cancelled"
  /\ emitted[1].run = last.run

\* C17: when the worker of an accepted start could not be started, the next
\* step of the orchestrator is the 'error' callback of that run: it publishes
\* one loadrunError event with the key and the captured output and removes
\* the key from the registry; the run publishes nothing afterwards.
C17_SpawnFailureEndsFailed ==
  [][\A p \in Runs :
       /\ procs[p].st = "spawnfail" =>
            LET k == procs[p].key
            IN /\ last'.op = "error" /\ last'.run = p
               /\ procs[p].nterm = 0 /\ loadProcess[k] = p
               /\ Len(emitted') = 1
               /\ emitted'[1].name = "loadrunError"
               /\ emitted'[1].fields = {"output", "error", "projectID"}
               /\ emitted'[1].projectID = k
               /\ emitted'[1].output = procs[p].output
               /\ emitted'[1].error = procs[p].errOutput
               /\ loadProcess'[k] = 0
               /\ procs'[p].st = "closed" /\ procs'[p].nterm = 1
       /\ procs[p].st = "closed" =>
            /\ procs'[p] = procs[p]
            /\ \A i \in 1..Len(emitted') : emitted'[i].run # p]_vars

\* the 'error' callback of a worker that could not be started has published
\* loadrunError and the key is free
C17_Witness ==
  /\ last.op = "error"
  /\ Len(emitted) = 1 /\ emitted[1].name = "loadrunError"
  /\ emitted[1].projectID = last.projectID
  /\ loadProcess[last.projectID] = 0
  /\ procs[last.run].nterm = 1

\* the keys a step touches: their registry entry or their counts change, an
\* event carries them, or a child process of theirs is created or changes
Touched ==
  {k \in Keys :
     \/ loadProcess'[k] # loadProcess[k]
     \/ win'[k] # win[k]
     \/ \E i \in 1..Len(emitted') : emitted'[i].projectID = k
     \/ \E p \in 1..Len(procs') :
          /\ procs'[p].key = k
          /\ p \in 1..Len(procs) => procs'[p] # procs[p]}

\* C18: a request or a child-process callback for one key leaves the
\* registry entry and the child processes of every other key unchanged and
\* publishes no event carrying another key; the answer to a request for a
\* key is decided by that key's own registry entry alone.
C18_KeyIsolation ==
  [][/\ Cardinality(Touched) <= 1
     /\ last'.op # "none" => Touched \subseteq {last'.projectID}
     /\ last'.op = "runload" =>
          last'.status = IF loadProcess[last'.projectID] # 0 THEN 409
                         ELSE IF last'.url THEN 202 ELSE 500
     /\ last'.op = "cancelLoad" =>
          last'.status = IF loadProcess[last'.projectID] # 0 THEN 200
                         ELSE 409]_vars

\* the 'exit' callback of a run ended one key's run while the run of the
\* other key stays registered with its worker running
C18_Witness ==
  /\ last.op = "exit"
  /\ loadProcess[last.projectID] = 0
  /\ \E k \in Keys \ {last.projectID} :
        /\ loadProcess[k] # 0
        /\ procs[loadProcess[k]].st = "running"
        /\ procs[loadProcess[k]].output = StdoutChunk

\* C19: the probes settle one by one in any order, each leaving the results
\* of the others as they are; getActiveMetricsURLs returns only when all five
\* have settled, it never rejects, and the map it returns has one boolean
\* entry for every catalog path, equal to what that path's own probe
\* returned.
C19_JoinAll ==
  [][/\ phase' # "rejected"
     /\ (phase = "probing" /\ phase' = "probing") =>
          /\ DOMAIN isActive' = DOMAIN isActive \cup {response'.endpoint}
          /\ \A e \in DOMAIN isActive : isActive'[e] = isActive[e]
     /\ (phase = "probing" /\ phase' = "joined") =>
          /\ DOMAIN isActive = EndpointSet
          /\ Cardinality(EndpointSet) = 5
          /\ DOMAIN endpoints' = EndpointSet
          /\ \A e \in EndpointSet :
               /\ endpoints'[e] \in BOOLEAN
               /\ endpoints'[e] = isActive[e].value]_vars

\* the call returned a map in which two probes gave false and their
\* siblings true
C19_Witness ==
  /\ phase = "joined"
  /\ DOMAIN endpoints = EndpointSet
  /\ ~endpoints["/metrics"] /\ endpoints["/appmetrics-dash"]
  /\ ~endpoints["/javametrics-dash"] /\ endpoints["/actuator/prometheus"]

\* the first capable legacy dashboard endpoint in the listed order
FirstLegacy ==
  IF endpoints["/appmetrics-dash"] THEN "/appmetrics-dash"
  ELSE IF endpoints["/javametrics-dash"] THEN "/javametrics-dash"
  ELSE "/swiftmetrics-dash"

\* C20: when '/metrics' is not selected (the language is not java or
\* '/metrics' is not capable) and a legacy dashboard endpoint is capable, the
\* call returns hosting by the project and the path of the first capable one
\* of '/appmetrics-dash', '/javametrics-dash', '/swiftmetrics-dash' followed
\* by '/?theme=dark', for every language.
C20_LegacySlotInListedOrder ==
  (/\ phase = "done"
   /\ ~(call.language = "java" /\ endpoints["/metrics"])
   /\ \E e \in LegacyEndpoints : endpoints[e]) =>
    dashboard = [hosting |-> "project",
                 path |-> FirstLegacy \o "/?theme=dark"]

\* for a java project whose '/metrics' is not capable, '/javametrics-dash'
\* was selected before '/swiftmetrics-dash'
C20_Witness ==
  /\ phase = "done"
  /\ call.language = "java"
  /\ ~endpoints["/metrics"] /\ ~endpoints["/appmetrics-dash"]
  /\ endpoints["/javametrics-dash"] /\ endpoints["/swiftmetrics-dash"]
  /\ dashboard = [hosting |-> "project",
                  path |-> "/javametrics-dash/?theme=dark"]

\* line is its first i - 1 characters, a "{", some text, a "}" and the rest
BraceSpan(line, i, j) ==
  /\ i \in 1..Len(line) /\ j \in 1..Len(line) /\ i < j
  /\ line[i] = "{" /\ line[j] = "}"
  /\ \A h \in 1..(i - 1) : line[h] # "{"

Without(line, i, j) == SubSeq(line, 1, i - 1) \o SubSeq(line, j + 1, Len(line))

\* C21 as stated: what is removed from a line is the text from its first "{"
\* to the first "}" after it, so that everything after that "}" is kept.
C21_StripsToFirstClosingBrace ==
  (args.fn = "replace" /\ result.done) =>
    \A i, j \in 1..Len(args.string) :
      (/\ BraceSpan(args.string, i, j)
       /\ \A h \in (i + 1)..(j - 1) : args.string[h] # "}") =>
        result.value = Without(args.string, i, j)

\* the spaces of line outside the text from its first "{" to its last "}"
SpacesOutsideBraces(line) ==
  {h \in 1..Len(line) :
     /\ line[h] = " "
     /\ ~\E i, j \in 1..Len(line) : BraceSpan(line, i, j) /\ i < h /\ h < j}

\* C21: what is removed from a line is the text from its first "{" to the
\* last "}" after it, one block only, so that of a line with several brace
\* groups only what precedes the first "{" and what follows the last "}" is
\* kept; a line without a "{" followed by a "}" is left as it is; a body of
\* one line is judged on the spaces that are kept.
C21_StripsToLastClosingBrace ==
  /\ (args.fn = "replace" /\ result.done) =>
       /\ \A i, j \in 1..Len(args.string) :
            (/\ BraceSpan(args.string, i, j)
             /\ \A h \in (j + 1)..Len(args.string) : args.string[h] # "}") =>
              result.value = Without(args.string, i, j)
       /\ (~\E i, j \in 1..Len(args.string) : BraceSpan(args.string, i, j))
            => result.value = args.string
  /\ (/\ args.fn = "isPrometheusFormat" /\ result.done
      /\ args.string # <<>>
      /\ \A h \in 1..Len(args.string) : args.string[h] # "\n") =>
       result.value = (Cardinality(SpacesOutsideBraces(args.string)) = 1)

\* of 'a{x} b{y} 1' the text 'a 1' is kept
C21_Witness ==
  /\ args.fn = "replace" /\ result.done
  /\ args.string = TwoGroups
  /\ result.value = <<"a", " ", "1">>

\* text is two non-empty tokens separated by one space
TwoTokens(text) ==
  \E i \in 2..(Len(text) - 1) :
    /\ text[i] = " "
    /\ \A j \in (1..Len(text)) \ {i} : text[j] # " "

\* the lines isPrometheusFormat judges: those of the body, without one final
\* empty line
JudgedLines(body) ==
  LET all == split(body, "\n")
  IN IF all[Len(all)] = <<>> THEN SubSeq(all, 1, Len(all) - 1) ELSE all

\* C22: a body is classified true only if every line of it that is not a
\* comment consists, once its label block is stripped, of two non-empty
\* tokens separated by one space; a body with a line that is a single space,
\* or one token with a space before or after it, is classified false.
C22_TwoNonEmptyTokens ==
  (args.fn = "isPrometheusFormat" /\ result.done /\ result.value = TRUE) =>
    \A n \in 1..Len(JudgedLines(args.string)) :
      LET line == JudgedLines(args.string)[n]
      IN \/ Len(line) >= 1 /\ line[1] = "#"
         \/ TwoTokens(replaceBraces(line))

\* C23: a handler of a run that publishes a terminal event and clears the
\* entry of its key clears its own entry: the entry it finds, if any, is
\* that run's, never the one of a later run of the same key.
C23_HandlersClearOwnEntry ==
  [][\A i \in 1..Len(emitted') :
       LET e == emitted'[i]
       IN (e.name \in TerminalNames /\ loadProcess[e.projectID] # 0) =>
            loadProcess[e.projectID] = e.run]_vars

\* C24: every run of an accepted start comes to its end with exactly one
\* terminal event published and its key no longer registered to it, given
\* that its worker ends or reports an error; and an entry is removed from
\* the registry only by a step that publishes a terminal event for its key.
C24_EveryRunTerminatesOnce ==
  /\ \A p \in 1..MaxRuns :
       (p \in Runs) ~> (/\ p \in Runs
                        /\ procs[p].st = "closed"
                        /\ procs[p].nterm = 1
                        /\ loadProcess[procs[p].key] # p)
  /\ [][\A k \in Keys :
          (loadProcess[k] # 0 /\ loadProcess'[k] = 0) =>
            \E i \in 1..Len(emitted') :
              /\ emitted'[i].name \in TerminalNames
              /\ emitted'[i].projectID = k]_vars

\* C25: the call returns a null path exactly when it returns hosting null;
\* it never returns hosting by the performance container with a null path.
C25_NullPathIffNoHosting ==
  phase = "done" =>
    /\ (dashboard.path = "null") <=> (dashboard.hosting = "null")
    /\ ~(dashboard.hosting = "performanceContainer"
           /\ dashboard.path = "null")

\* the call returned hosting by the performance container, with a path
C25_Witness ==
  /\ phase = "done"
  /\ dashboard.hosting = "performanceContainer"
  /\ dashboard.path
       = "/performance/monitor/dashboard/java?theme=dark&projectID=p2"

=============================================================================
